---- MODULE Spec2Model ----
(***************************************************************************)
(* Model of export_nvdb.py: the export of all NVDB feature types that      *)
(* carry geometry into one GeoPackage, one layer per feature type.         *)
(*                                                                         *)
(* Python text that the program inspects character by character (type      *)
(* names, layer names) is a sequence of one-character strings.  Text that  *)
(* is only handed to shapely (well-known text) is a TLA+ string.  Every    *)
(* Python value of unknown shape is a record tagged by its type in field   *)
(* k, so that values of different Python types can be compared.            *)
(***************************************************************************)
EXTENDS Integers, Sequences, FiniteSets, TLC

(***************************************************************************)
(* Bounds of the model.                                                    *)
(***************************************************************************)
\* longest catalog the catalog reader returns
MaxTypes == 2
\* most records the upstream source yields over one run
MaxRecords == 2
\* longest freely chosen type name given to the sanitizer
SanMaxLen == 3

(***************************************************************************)
(* Program constants.                                                      *)
(***************************************************************************)
\* return name[:50]
MaxLayerLen == 50

(***************************************************************************)
(* Python values.                                                          *)
(***************************************************************************)
\* a key that the mapping does not hold
Absent == [k |-> "absent"]
PyNone == [k |-> "None"]
PyStr(s) == [k |-> "str", s |-> s]
PyInt(n) == [k |-> "int", n |-> n]
PyBool(b) == [k |-> "bool", b |-> b]
PyList(v) == [k |-> "list", v |-> v]
\* a mapping seen through the four keys parse_geometry reads
PyDict(t, c, w, W) == [k |-> "dict", type |-> t, coordinates |-> c, wkt |-> w, WKT |-> W]
\* a shapely geometry
Geom(t, c) == [k |-> "geom", gtype |-> t, coords |-> c]
\* text read character by character
Chars(s) == [k |-> "str", chars |-> s]

\* dict.get(key): None for a key the mapping does not hold
Get(v) == IF v = Absent THEN PyNone ELSE v

\* str.strip() of the well-known-text candidates of the model: the blank ones
\* strip to the empty string, the others have no surrounding white space
BlankTexts == {"", " ", "   "}
StripText(s) == IF s \in BlankTexts THEN "" ELSE s

\* Python truth value of a value
Truthy(v) ==
    CASE v.k = "absent" -> FALSE
      [] v.k = "None" -> FALSE
      [] v.k = "str" -> IF "chars" \in DOMAIN v THEN v.chars # <<>> ELSE v.s # ""
      [] v.k = "int" -> v.n # 0
      [] v.k = "bool" -> v.b
      [] v.k = "list" -> v.v # <<>>
      [] v.k = "dict" -> \E f \in {"type", "coordinates", "wkt", "WKT"} : v[f] # Absent
      [] OTHER -> TRUE

\* x or y
PyOr(x, y) == IF Truthy(x) THEN x ELSE y

(***************************************************************************)
(* safe_layer_name                                                         *)
(***************************************************************************)
LowerLetters == <<"a", "b", "c", "d", "e", "f", "g", "h", "i", "j", "k", "l", "m",
                  "n", "o", "p", "q", "r", "s", "t", "u", "v", "w", "x", "y", "z">>
UpperLetters == <<"A", "B", "C", "D", "E", "F", "G", "H", "I", "J", "K", "L", "M",
                  "N", "O", "P", "Q", "R", "S", "T", "U", "V", "W", "X", "Y", "Z">>
DigitChars == <<"0", "1", "2", "3", "4", "5", "6", "7", "8", "9">>
Range(s) == {s[i] : i \in DOMAIN s}
\* the character class [a-z0-9_]
LayerChars == Range(LowerLetters) \cup Range(DigitChars) \cup {"_"}
WhiteSpace == {" ", "\t", "\n"}

\* a variant that leaves the case as it is
LowerUnchanged(s) == s

\* str.lower() on one character; a character outside ASCII is written by
\* its code point: U+00C9 is the capital E with acute, U+00E9 the small one
LowerChar(c) ==
    IF c \in Range(UpperLetters)
    THEN LowerLetters[CHOOSE i \in DOMAIN UpperLetters : UpperLetters[i] = c]
    ELSE IF c = "U+00C9" THEN "U+00E9" ELSE c
Lower(s) == [i \in DOMAIN s |-> LowerChar(s[i])]

RECURSIVE LStrip(_, _)
LStrip(s, S) == IF s = <<>> \/ Head(s) \notin S THEN s ELSE LStrip(Tail(s), S)
RECURSIVE RStrip(_, _)
RStrip(s, S) ==
    IF s = <<>> \/ s[Len(s)] \notin S THEN s ELSE RStrip(SubSeq(s, 1, Len(s) - 1), S)
\* str.strip() with S the white space, str.strip("_") with S = {"_"}
Strip(s, S) == RStrip(LStrip(s, S), S)

\* re.sub(r"[C]+", "_", s), or re.sub(r"[^C]+", "_", s) when negated: every
\* maximal run of matching characters becomes one underscore
RECURSIVE ReSubRuns(_, _, _)
ReSubRuns(s, C, negated) ==
    IF s = <<>> THEN <<>>
    ELSE IF (Head(s) \in C) = negated
         THEN <<Head(s)>> \o ReSubRuns(Tail(s), C, negated)
         ELSE <<"_">> \o ReSubRuns(LStrip(Tail(s), IF negated THEN Range(s) \ C ELSE C), C, negated)

\* name[:n]
Prefix(s, n) == SubSeq(s, 1, IF Len(s) < n THEN Len(s) ELSE n)

\* a variant that returns the sanitized name without trimming it
safe_layer_name_untrimmed(name, fallback) ==
    LET n1 == IF name = <<>> THEN fallback ELSE name
        n2 == Lower(Strip(n1, WhiteSpace))
        n3 == ReSubRuns(n2, LayerChars, TRUE)
        n4 == Strip(ReSubRuns(n3, {"_"}, FALSE), {"_"})
    IN  IF n4 = <<>> THEN fallback ELSE n4

safe_layer_name(name, fallback) ==
    LET n1 == IF name = <<>> THEN fallback ELSE name
        n2 == Lower(Strip(n1, WhiteSpace))
        n3 == ReSubRuns(n2, LayerChars, TRUE)
        n4 == Strip(ReSubRuns(n3, {"_"}, FALSE), {"_"})
        n5 == IF n4 = <<>> THEN fallback ELSE n4
    IN  Prefix(n5, MaxLayerLen)

\* str(n) of a non-negative integer
RECURSIVE IntToStr(_)
IntToStr(n) ==
    IF n < 10 THEN <<DigitChars[n + 1]>>
    ELSE IntToStr(n \div 10) \o <<DigitChars[(n % 10) + 1]>>

\* f"objtype_{objtype_id}"
FallbackName(id) == <<"o", "b", "j", "t", "y", "p", "e", "_">> \o IntToStr(id)

\* objtype_name = o.get("navn") or f"objtype_{objtype_id}"
ObjtypeName(o) == IF Truthy(Get(o.navn)) THEN o.navn.chars ELSE FallbackName(o.id)

\* layer = safe_layer_name(objtype_name, fallback=f"objtype_{objtype_id}")
LayerOf(o) == safe_layer_name(ObjtypeName(o), FallbackName(o.id))

(***************************************************************************)
(* parse_geometry                                                          *)
(***************************************************************************)
Raised == [raised |-> TRUE]
Returned(v) == [raised |-> FALSE, value |-> v]

\* shapely.geometry.shape on a mapping: a Point with a coordinate pair is
\* built, an unknown type tag or coordinates of another shape raise
shape(geom) ==
    IF /\ geom.type = PyStr("Point")
       /\ geom.coordinates.k = "list"
       /\ Len(geom.coordinates.v) = 2
    THEN Returned(Geom("Point", geom.coordinates.v))
    ELSE Raised

\* shapely.wkt.loads on the texts of the model: well-known text of a point
\* is parsed, any other text raises
wkt_loads(text) ==
    CASE text = "POINT (10 70)" -> Returned(Geom("Point", <<10, 70>>))
      [] text = "POINT (5 60)" -> Returned(Geom("Point", <<5, 60>>))
      [] OTHER -> Raised

\* try: return wkt.loads(text) / except Exception: return None
LoadsOrNone(text) == IF wkt_loads(text).raised THEN PyNone ELSE wkt_loads(text).value

\* a variant that gives up when shape() fails instead of trying the text keys
parse_geometry_no_fallthrough(geom) ==
    IF ~Truthy(geom) THEN PyNone
    ELSE IF geom.k = "dict"
    THEN LET gtype == Get(geom.type)
             coords == Get(geom.coordinates)
             wkt_text == PyOr(Get(geom.wkt), Get(geom.WKT))
         IN  IF gtype.k = "str" /\ coords # PyNone
             THEN IF shape(geom).raised THEN PyNone ELSE shape(geom).value
             ELSE IF wkt_text.k = "str" /\ StripText(wkt_text.s) # ""
                  THEN LoadsOrNone(wkt_text.s)
                  ELSE PyNone
    ELSE IF geom.k = "str" /\ StripText(geom.s) # ""
    THEN LoadsOrNone(geom.s)
    ELSE PyNone

\* the argument is what obj.get("geometri") gave; the result is a geometry
\* or None
parse_geometry(geom) ==
    IF ~Truthy(geom) THEN PyNone
    ELSE IF geom.k = "dict"
    THEN LET gtype == Get(geom.type)
             coords == Get(geom.coordinates)
             wkt_text == PyOr(Get(geom.wkt), Get(geom.WKT))
         IN  IF gtype.k = "str" /\ coords # PyNone /\ ~shape(geom).raised
             THEN shape(geom).value
             ELSE IF wkt_text.k = "str" /\ StripText(wkt_text.s) # ""
                  THEN LoadsOrNone(wkt_text.s)
                  ELSE PyNone
    ELSE IF geom.k = "str" /\ StripText(geom.s) # ""
    THEN LoadsOrNone(geom.s)
    ELSE PyNone

(***************************************************************************)
(* The run: main()                                                         *)
(***************************************************************************)
VARIABLES
    pc,                     \* where main() stands
    catalog,                \* what nvdbObjekttyper() returns
    objtypes,               \* the catalog entries kept by the geometry filter
    idx,                    \* position in objtypes of the current type
    objtype_id, objtype_name, layer,
    rows, skipped_no_geom, skipped_bad_geom, fetched,
    gdf, mode,
    file_exists,            \* outfile.exists()
    file_layers,            \* the layers of outfile, in order of creation
    total_features, total_skipped_no_geom, total_skipped_bad_geom, failed_types,
    ev,                     \* history: the step taken last
    lastGeom,               \* history: the geometri field of the record read last
    queried,                \* history: the ids nvdbFagdata() was called with
    writes,                 \* history: the layer names to_file() wrote, in order
    outcome,                \* history: how each attempted type ended
    yielded,                \* history: the records the upstream source has yielded
    call                    \* a single call of one of the two pure functions

runVars == <<pc, catalog, objtypes, idx, objtype_id, objtype_name, layer, rows,
             skipped_no_geom, skipped_bad_geom, fetched, gdf, mode, file_exists,
             file_layers, total_features, total_skipped_no_geom,
             total_skipped_bad_geom, failed_types, ev, lastGeom, queried, writes,
             outcome, yielded>>
vars == <<runVars, call>>

CRS == "EPSG:5973"

\* --- the catalogs of the model ------------------------------------------
Skred == <<"S", "k", "r", "e", "d">>
AB == <<"A", " ", "B">>

TypeDef(navn, name, hg, h_g) ==
    [navn |-> navn, name |-> name, harGeometri |-> hg, har_geometri |-> h_g]

\* type definitions as the upstream catalog may return them: the name under
\* "navn" (or missing, empty, or under another key), the geometry flag under
\* either spelling, both or none
TypeDefs ==
    {TypeDef(Chars(Skred), Absent, PyBool(TRUE), Absent),
     TypeDef(Chars(AB), Absent, PyBool(TRUE), Absent),
     TypeDef(Absent, Chars(Skred), PyBool(TRUE), Absent),
     TypeDef(Chars(Skred), Absent, Absent, PyBool(TRUE)),
     TypeDef(Chars(Skred), Absent, PyBool(FALSE), PyBool(TRUE)),
     TypeDef(Chars(Skred), Absent, Absent, Absent)}

\* the id of the i-th entry: ids are distinct
TypeId(i) == 9 + i
WithId(d, i) ==
    [id |-> TypeId(i), navn |-> d.navn, name |-> d.name,
     harGeometri |-> d.harGeometri, har_geometri |-> d.har_geometri]
Catalogs ==
    UNION {{[i \in 1..n |-> WithId(c[i], i)] : c \in [1..n -> TypeDefs]} : n \in 0..MaxTypes}

\* --- the records of the model -------------------------------------------
PointDict == PyDict(PyStr("Point"), PyList(<<10, 70>>), Absent, Absent)
EmptyDict == PyDict(Absent, Absent, Absent, Absent)
\* the geometri field of a record: missing, null, empty, malformed or good
RecordGeoms ==
    {Absent, PyNone, PyStr(""), EmptyDict, PyStr("INVALID_WKT_@@@"), PyInt(5), PointDict}

\* json.dumps(obj_copy, ensure_ascii=False) of a record left with its id
JsonDumps(obj_copy) ==
    <<"{", "\"", "i", "d", "\"", ":", " ">> \o IntToStr(obj_copy.id) \o <<"}">>

\* the rec built from a record with a parsed geometry (INCLUDE_PROPERTIES_AS_JSON)
BuildRec(obj, geometry, id, name) ==
    [id |-> obj.id, objekttype |-> id, objekttype_navn |-> name,
     geometry |-> geometry, properties |-> JsonDumps([id |-> obj.id])]

\* --- the catalog filter -------------------------------------------------
\* a variant that reads the flag under "harGeometri" only
HasGeomOneSpelling(o) == Truthy(Get(o.harGeometri))

HasGeom(o) ==
    LET has_geom == Get(o.harGeometri)
    IN  Truthy(IF has_geom = PyNone THEN Get(o.har_geometri) ELSE has_geom)

\* --- GeoDataFrame.to_file(outfile, layer=..., driver="GPKG", mode=...) ---
HasLayer(ls, n) == \E i \in DOMAIN ls : ls[i].name = n
\* mode "a": rows are added to the layer of that name, which is created when
\* the file does not hold it
AppendLayer(ls, n, rs) ==
    IF HasLayer(ls, n)
    THEN [i \in DOMAIN ls |-> IF ls[i].name = n
                              THEN [name |-> n, rows |-> ls[i].rows \o rs] ELSE ls[i]]
    ELSE Append(ls, [name |-> n, rows |-> rs])
\* mode "w" (the default): the layer of that name is written anew, the other
\* layers of an existing file are kept
WriteLayer(ls, n, rs) ==
    IF HasLayer(ls, n)
    THEN [i \in DOMAIN ls |-> IF ls[i].name = n THEN [name |-> n, rows |-> rs] ELSE ls[i]]
    ELSE Append(ls, [name |-> n, rows |-> rs])
to_file(exists, ls, n, rs, m) ==
    IF ~exists THEN <<[name |-> n, rows |-> rs]>>
    ELSE IF m = "a" THEN AppendLayer(ls, n, rs) ELSE WriteLayer(ls, n, rs)

Ended(kind, n, no_geom, bad_geom) ==
    [id |-> objtype_id, kind |-> kind, n |-> n, no_geom |-> no_geom, bad_geom |-> bad_geom]

\* --- the steps of main() ------------------------------------------------
Idle == call = [fn |-> "none"]

RunInit ==
    /\ pc = "start"
    /\ catalog \in Catalogs
    /\ objtypes = <<>>
    /\ idx = 0
    /\ objtype_id = 0 /\ objtype_name = <<>> /\ layer = <<>>
    /\ rows = <<>> /\ skipped_no_geom = 0 /\ skipped_bad_geom = 0 /\ fetched = 0
    /\ gdf = [rows |-> <<>>, crs |-> CRS] /\ mode = "w"
    /\ file_exists = FALSE /\ file_layers = <<>>
    /\ total_features = 0 /\ total_skipped_no_geom = 0
    /\ total_skipped_bad_geom = 0 /\ failed_types = 0
    /\ ev = "init" /\ lastGeom = Absent /\ queried = <<>> /\ writes = <<>>
    /\ outcome = <<>>
    /\ yielded = 0

Init == RunInit /\ Idle

\* ot = nvdbObjekttyper(); the filter; the counters
ReadCatalog ==
    /\ pc = "start"
    /\ objtypes' = SelectSeq(catalog, HasGeom)
    /\ idx' = 1
    /\ pc' = "loop"
    /\ ev' = "catalog"
    /\ UNCHANGED <<catalog, objtype_id, objtype_name, layer, rows, skipped_no_geom,
                   skipped_bad_geom, fetched, gdf, mode, file_exists, file_layers,
                   total_features, total_skipped_no_geom, total_skipped_bad_geom,
                   failed_types, lastGeom, queried, writes, outcome, yielded, call>>

\* the catalog call raises: nothing catches it
CatalogFail ==
    /\ pc = "start"
    /\ pc' = "aborted"
    /\ ev' = "catalog_fail"
    /\ UNCHANGED <<catalog, objtypes, idx, objtype_id, objtype_name, layer, rows,
                   skipped_no_geom, skipped_bad_geom, fetched, gdf, mode, file_exists,
                   file_layers, total_features, total_skipped_no_geom,
                   total_skipped_bad_geom, failed_types, lastGeom, queried, writes,
                   outcome, yielded, call>>

\* the head of the loop body: the id, the name and the layer of the type
BeginType ==
    /\ pc = "loop"
    /\ idx <= Len(objtypes)
    /\ objtype_id' = objtypes[idx].id
    /\ objtype_name' = ObjtypeName(objtypes[idx])
    /\ layer' = LayerOf(objtypes[idx])
    /\ pc' = "setup"
    /\ ev' = "begin"
    /\ UNCHANGED <<catalog, objtypes, idx, rows, skipped_no_geom, skipped_bad_geom,
                   fetched, gdf, mode, file_exists, file_layers, total_features,
                   total_skipped_no_geom, total_skipped_bad_geom, failed_types,
                   lastGeom, queried, writes, outcome, yielded, call>>

\* nvdbFagdata(objtype_id) and nvdb.filter(...) succeed; the per-type counters
SetupOK ==
    /\ pc = "setup"
    /\ queried' = Append(queried, objtype_id)
    /\ rows' = <<>>
    /\ skipped_no_geom' = 0 /\ skipped_bad_geom' = 0 /\ fetched' = 0
    /\ lastGeom' = Absent
    /\ pc' = "iter"
    /\ ev' = "setup"
    /\ UNCHANGED <<catalog, objtypes, idx, objtype_id, objtype_name, layer, gdf, mode,
                   file_exists, file_layers, total_features, total_skipped_no_geom,
                   total_skipped_bad_geom, failed_types, writes, outcome,
                   yielded, call>>

\* a variant in which a failing query setup is not caught
SetupFailPropagates ==
    /\ pc = "setup"
    /\ queried' = Append(queried, objtype_id)
    /\ pc' = "aborted"
    /\ ev' = "setup_fail"
    /\ UNCHANGED <<catalog, objtypes, idx, objtype_id, objtype_name, layer, rows,
                   skipped_no_geom, skipped_bad_geom, fetched, gdf, mode, file_exists,
                   file_layers, total_features, total_skipped_no_geom,
                   total_skipped_bad_geom, failed_types, lastGeom, writes, outcome,
                   yielded, call>>

\* nvdbFagdata(objtype_id) or nvdb.filter(...) raises
SetupFail ==
    /\ pc = "setup"
    /\ queried' = Append(queried, objtype_id)
    /\ failed_types' = failed_types + 1
    /\ idx' = idx + 1
    /\ pc' = "loop"
    /\ ev' = "setup_fail"
    /\ outcome' = Append(outcome, Ended("setup_raised", 0, 0, 0))
    /\ UNCHANGED <<catalog, objtypes, objtype_id, objtype_name, layer, rows,
                   skipped_no_geom, skipped_bad_geom, fetched, gdf, mode, file_exists,
                   file_layers, total_features, total_skipped_no_geom,
                   total_skipped_bad_geom, lastGeom, writes, yielded, call>>

\* a variant that tests "geom is None" where the code tests "not geom"
IterRecordIsNone ==
    /\ pc = "iter"
    /\ yielded < MaxRecords
    /\ yielded' = yielded + 1
    /\ \E g \in RecordGeoms :
        LET obj == [id |-> fetched + 1, geometri |-> g]
            geom == Get(obj.geometri)
            geometry == parse_geometry(geom)
        IN  /\ fetched' = fetched + 1
            /\ lastGeom' = g
            /\ IF geom = PyNone
               THEN /\ skipped_no_geom' = skipped_no_geom + 1
                    /\ UNCHANGED <<skipped_bad_geom, rows>>
               ELSE IF geometry = PyNone
               THEN /\ skipped_bad_geom' = skipped_bad_geom + 1
                    /\ UNCHANGED <<skipped_no_geom, rows>>
               ELSE /\ rows' = Append(rows, BuildRec(obj, geometry, objtype_id, objtype_name))
                    /\ UNCHANGED <<skipped_no_geom, skipped_bad_geom>>
    /\ ev' = "record"
    /\ UNCHANGED <<pc, catalog, objtypes, idx, objtype_id, objtype_name, layer, gdf, mode,
                   file_exists, file_layers, total_features, total_skipped_no_geom,
                   total_skipped_bad_geom, failed_types, queried, writes, outcome,
                   call>>

\* one turn of "for obj in nvdb" on a record whose geometri field is g
IterRecord ==
    /\ pc = "iter"
    /\ yielded < MaxRecords
    /\ yielded' = yielded + 1
    /\ \E g \in RecordGeoms :
        LET obj == [id |-> fetched + 1, geometri |-> g]
            geom == Get(obj.geometri)
            geometry == parse_geometry(geom)
        IN  /\ fetched' = fetched + 1
            /\ lastGeom' = g
            /\ IF ~Truthy(geom)
               THEN /\ skipped_no_geom' = skipped_no_geom + 1
                    /\ UNCHANGED <<skipped_bad_geom, rows>>
               ELSE IF geometry = PyNone
               THEN /\ skipped_bad_geom' = skipped_bad_geom + 1
                    /\ UNCHANGED <<skipped_no_geom, rows>>
               ELSE /\ rows' = Append(rows, BuildRec(obj, geometry, objtype_id, objtype_name))
                    /\ UNCHANGED <<skipped_no_geom, skipped_bad_geom>>
    /\ ev' = "record"
    /\ UNCHANGED <<pc, catalog, objtypes, idx, objtype_id, objtype_name, layer, gdf, mode,
                   file_exists, file_layers, total_features, total_skipped_no_geom,
                   total_skipped_bad_geom, failed_types, queried, writes, outcome,
                   call>>

\* a variant that adds the failed type's skip counters to the totals
IterRaiseKeepsSkips ==
    /\ pc = "iter"
    /\ \E midRecord \in BOOLEAN :
        /\ midRecord => yielded < MaxRecords
        /\ yielded' = IF midRecord THEN yielded + 1 ELSE yielded
        /\ fetched' = IF midRecord THEN fetched + 1 ELSE fetched
    /\ failed_types' = failed_types + 1
    /\ total_skipped_no_geom' = total_skipped_no_geom + skipped_no_geom
    /\ total_skipped_bad_geom' = total_skipped_bad_geom + skipped_bad_geom
    /\ idx' = idx + 1
    /\ pc' = "loop"
    /\ ev' = "iter_fail"
    /\ outcome' = Append(outcome, Ended("iter_raised", Len(rows), skipped_no_geom, skipped_bad_geom))
    /\ UNCHANGED <<catalog, objtypes, objtype_id, objtype_name, layer, rows,
                   skipped_no_geom, skipped_bad_geom, gdf, mode, file_exists,
                   file_layers, total_features, lastGeom, queried, writes, call>>

\* the iteration raises: in the iterator (a page of the upstream source fails)
\* or, with midRecord, in the loop body after fetched += 1
IterRaise ==
    /\ pc = "iter"
    /\ \E midRecord \in BOOLEAN :
        /\ midRecord => yielded < MaxRecords
        /\ yielded' = IF midRecord THEN yielded + 1 ELSE yielded
        /\ fetched' = IF midRecord THEN fetched + 1 ELSE fetched
    /\ failed_types' = failed_types + 1
    /\ idx' = idx + 1
    /\ pc' = "loop"
    /\ ev' = "iter_fail"
    /\ outcome' = Append(outcome, Ended("iter_raised", Len(rows), skipped_no_geom, skipped_bad_geom))
    /\ UNCHANGED <<catalog, objtypes, objtype_id, objtype_name, layer, rows,
                   skipped_no_geom, skipped_bad_geom, gdf, mode, file_exists,
                   file_layers, total_features, total_skipped_no_geom,
                   total_skipped_bad_geom, lastGeom, queried, writes, call>>

\* a variant that forgets the skip counters of a type without rows
EndZeroDropsSkips ==
    /\ pc = "iter"
    /\ rows = <<>>
    /\ idx' = idx + 1
    /\ pc' = "loop"
    /\ ev' = "zero"
    /\ outcome' = Append(outcome, Ended("zero", 0, skipped_no_geom, skipped_bad_geom))
    /\ UNCHANGED <<catalog, objtypes, objtype_id, objtype_name, layer, rows,
                   skipped_no_geom, skipped_bad_geom, fetched, gdf, mode, file_exists,
                   file_layers, total_features, total_skipped_no_geom,
                   total_skipped_bad_geom, failed_types, lastGeom, queried, writes,
                   yielded, call>>

\* the iteration ends with no row built
EndZero ==
    /\ pc = "iter"
    /\ rows = <<>>
    /\ total_skipped_no_geom' = total_skipped_no_geom + skipped_no_geom
    /\ total_skipped_bad_geom' = total_skipped_bad_geom + skipped_bad_geom
    /\ idx' = idx + 1
    /\ pc' = "loop"
    /\ ev' = "zero"
    /\ outcome' = Append(outcome, Ended("zero", 0, skipped_no_geom, skipped_bad_geom))
    /\ UNCHANGED <<catalog, objtypes, objtype_id, objtype_name, layer, rows,
                   skipped_no_geom, skipped_bad_geom, fetched, gdf, mode, file_exists,
                   file_layers, total_features, failed_types, lastGeom, queried, writes,
                   yielded, call>>

\* the iteration ends with rows; gpd.GeoDataFrame(rows, crs=CRS); the mode
BuildOK ==
    /\ pc = "iter"
    /\ rows # <<>>
    /\ gdf' = [rows |-> rows, crs |-> CRS]
    /\ mode' = IF ~file_exists THEN "w" ELSE "a"
    /\ pc' = "write"
    /\ ev' = "build"
    /\ UNCHANGED <<catalog, objtypes, idx, objtype_id, objtype_name, layer, rows,
                   skipped_no_geom, skipped_bad_geom, fetched, file_exists, file_layers,
                   total_features, total_skipped_no_geom, total_skipped_bad_geom,
                   failed_types, lastGeom, queried, writes, outcome, yielded, call>>

\* gpd.GeoDataFrame(rows, crs=CRS) raises: nothing catches it
BuildFail ==
    /\ pc = "iter"
    /\ rows # <<>>
    /\ pc' = "aborted"
    /\ ev' = "build_fail"
    /\ UNCHANGED <<catalog, objtypes, idx, objtype_id, objtype_name, layer, rows,
                   skipped_no_geom, skipped_bad_geom, fetched, gdf, mode, file_exists,
                   file_layers, total_features, total_skipped_no_geom,
                   total_skipped_bad_geom, failed_types, lastGeom, queried, writes,
                   outcome, yielded, call>>

\* what follows a successful to_file: the totals, and on to the next type
Written(how) ==
    /\ file_exists' = TRUE
    /\ writes' = Append(writes, layer)
    /\ total_features' = total_features + Len(gdf.rows)
    /\ total_skipped_no_geom' = total_skipped_no_geom + skipped_no_geom
    /\ total_skipped_bad_geom' = total_skipped_bad_geom + skipped_bad_geom
    /\ idx' = idx + 1
    /\ pc' = "loop"
    /\ ev' = how
    /\ outcome' = Append(outcome,
                         Ended("written", Len(gdf.rows), skipped_no_geom, skipped_bad_geom))
    /\ UNCHANGED <<catalog, objtypes, objtype_id, objtype_name, layer, rows,
                   skipped_no_geom, skipped_bad_geom, fetched, gdf, mode, failed_types,
                   lastGeom, queried, yielded, call>>

\* gdf.to_file(outfile, layer=layer, driver="GPKG", mode=mode) succeeds
WriteOK ==
    /\ pc = "write"
    /\ file_layers' = to_file(file_exists, file_layers, layer, gdf.rows, mode)
    /\ Written("write")

\* to_file raises TypeError (mode= is not supported): the except branch
WriteTypeError ==
    /\ pc = "write"
    /\ pc' = "fallback"
    /\ ev' = "type_error"
    /\ UNCHANGED <<catalog, objtypes, idx, objtype_id, objtype_name, layer, rows,
                   skipped_no_geom, skipped_bad_geom, fetched, gdf, mode, file_exists,
                   file_layers, total_features, total_skipped_no_geom,
                   total_skipped_bad_geom, failed_types, lastGeom, queried, writes,
                   outcome, yielded, call>>

\* to_file raises another exception: nothing catches it
WriteFail ==
    /\ pc = "write"
    /\ pc' = "aborted"
    /\ ev' = "write_fail"
    /\ UNCHANGED <<catalog, objtypes, idx, objtype_id, objtype_name, layer, rows,
                   skipped_no_geom, skipped_bad_geom, fetched, gdf, mode, file_exists,
                   file_layers, total_features, total_skipped_no_geom,
                   total_skipped_bad_geom, failed_types, lastGeom, queried, writes,
                   outcome, yielded, call>>

\* gdf.to_file(outfile, layer=layer, driver="GPKG") in the except branch succeeds
FallbackOK ==
    /\ pc = "fallback"
    /\ file_layers' = to_file(file_exists, file_layers, layer, gdf.rows, "w")
    /\ Written("fallback")

\* the write of the except branch raises: nothing catches it
FallbackFail ==
    /\ pc = "fallback"
    /\ pc' = "aborted"
    /\ ev' = "fallback_fail"
    /\ UNCHANGED <<catalog, objtypes, idx, objtype_id, objtype_name, layer, rows,
                   skipped_no_geom, skipped_bad_geom, fetched, gdf, mode, file_exists,
                   file_layers, total_features, total_skipped_no_geom,
                   total_skipped_bad_geom, failed_types, lastGeom, queried, writes,
                   outcome, yielded, call>>

\* the loop is over: the summary is printed
Summary ==
    /\ pc = "loop"
    /\ idx > Len(objtypes)
    /\ pc' = "done"
    /\ ev' = "summary"
    /\ UNCHANGED <<catalog, objtypes, idx, objtype_id, objtype_name, layer, rows,
                   skipped_no_geom, skipped_bad_geom, fetched, gdf, mode, file_exists,
                   file_layers, total_features, total_skipped_no_geom,
                   total_skipped_bad_geom, failed_types, lastGeom, queried, writes,
                   outcome, yielded, call>>

Next ==
    \/ ReadCatalog \/ CatalogFail
    \/ BeginType
    \/ SetupOK \/ SetupFail
    \/ IterRecord \/ IterRaise
    \/ EndZero
    \/ BuildOK \/ BuildFail
    \/ WriteOK \/ WriteTypeError \/ WriteFail
    \/ FallbackOK \/ FallbackFail
    \/ Summary

Spec == Init /\ [][Next]_vars

(***************************************************************************)
(* Single calls of the two pure functions, on inputs drawn from bounded    *)
(* sets.  The run does not move in these specifications.                   *)
(***************************************************************************)
NotReturned == [k |-> "pending"]

RunIdle ==
    /\ pc = "idle"
    /\ catalog = <<>>
    /\ objtypes = <<>>
    /\ idx = 0
    /\ objtype_id = 0 /\ objtype_name = <<>> /\ layer = <<>>
    /\ rows = <<>> /\ skipped_no_geom = 0 /\ skipped_bad_geom = 0 /\ fetched = 0
    /\ gdf = [rows |-> <<>>, crs |-> CRS] /\ mode = "w"
    /\ file_exists = FALSE /\ file_layers = <<>>
    /\ total_features = 0 /\ total_skipped_no_geom = 0
    /\ total_skipped_bad_geom = 0 /\ failed_types = 0
    /\ ev = "init" /\ lastGeom = Absent /\ queried = <<>> /\ writes = <<>>
    /\ outcome = <<>>
    /\ yielded = 0

\* type names: every short text over letters, digits, underscore, blank,
\* symbol and a letter outside ASCII, and texts around the length limit
SanAlphabet == {"a", "B", "1", "_", " ", "@", "U+00C9"}
Texts(n) == UNION {[1..m -> SanAlphabet] : m \in 0..n}
Rep(c, n) == [i \in 1..n |-> c]
SanNames ==
    Texts(SanMaxLen)
    \cup {Rep(c, n) \o t : c \in {"a", "@"},
                           n \in {MaxLayerLen - 1, MaxLayerLen, MaxLayerLen + 1},
                           t \in Texts(2)}
SanIds == {0, 7, 10, 105}

SanInit ==
    /\ RunIdle
    /\ call \in {[fn |-> "safe_layer_name", name |-> n, id |-> i, ret |-> NotReturned] :
                    n \in SanNames, i \in SanIds}

\* safe_layer_name(name, fallback=f"objtype_{objtype_id}")
CallSafeLayerName ==
    /\ call.fn = "safe_layer_name"
    /\ call.ret = NotReturned
    /\ call' = [call EXCEPT !.ret = Chars(safe_layer_name(call.name, FallbackName(call.id)))]
    /\ UNCHANGED runVars

SanNext == CallSafeLayerName

SpecSan == SanInit /\ [][SanNext]_vars

\* geometry values: mappings over the four keys parse_geometry reads, texts,
\* and values of other types
TypeTags == {Absent, PyStr("Point"), PyStr("Bogus"), PyInt(5)}
CoordValues == {Absent, PyNone, PyList(<<10, 70>>), PyStr("bad")}
TextValues ==
    {Absent, PyStr(""), PyStr("   "), PyStr("INVALID_WKT_@@@"), PyStr("POINT (10 70)"),
     PyStr("POINT (5 60)"), PyInt(5)}
GeomValues ==
    {PyDict(t, c, w, W) : t \in TypeTags, c \in CoordValues, w \in TextValues, W \in TextValues}
    \cup (TextValues \ {Absent})
    \cup {PyNone, PyInt(0), PyBool(FALSE), PyBool(TRUE), PyList(<<>>), PyList(<<10, 70>>)}

GeomInit ==
    /\ RunIdle
    /\ call \in {[fn |-> "parse_geometry", geom |-> g, ret |-> NotReturned] : g \in GeomValues}

\* parse_geometry(geom)
CallParseGeometry ==
    /\ call.fn = "parse_geometry"
    /\ call.ret = NotReturned
    /\ call' = [call EXCEPT !.ret = parse_geometry(call.geom)]
    /\ UNCHANGED runVars

GeomNext == CallParseGeometry

SpecGeom == GeomInit /\ [][GeomNext]_vars

(***************************************************************************)
(* C1                                                                      *)
(***************************************************************************)
\* C1: for every type name (empty, blank, made of symbols or of letters
\* outside ASCII, longer than 50 characters) and the fallback "objtype_<id>",
\* safe_layer_name returns between 1 and 50 characters, each in [a-z0-9_].
C1_LayerNameWellFormed ==
    (call.fn = "safe_layer_name" /\ call.ret # NotReturned) =>
        /\ Len(call.ret.chars) >= 1
        /\ Len(call.ret.chars) <= MaxLayerLen
        /\ \A i \in 1..Len(call.ret.chars) :
              call.ret.chars[i] \in Range(LowerLetters) \cup Range(DigitChars) \cup {"_"}

\* a name longer than 50 characters that ends in symbols has been cut to 50
C1_Witness ==
    /\ call.fn = "safe_layer_name"
    /\ call.name = Rep("a", MaxLayerLen + 1) \o <<"@", "B">>
    /\ call.ret = Chars(Rep("a", MaxLayerLen))

\* a name made of symbols only has given the fallback
C1_WitnessFallback ==
    /\ call.fn = "safe_layer_name"
    /\ call.name = <<"@", " ", "U+00C9">>
    /\ call.id = 105
    /\ call.ret = Chars(<<"o", "b", "j", "t", "y", "p", "e", "_", "1", "0", "5">>)

(***************************************************************************)
(* C2                                                                      *)
(***************************************************************************)
\* C2: when the iteration of a type raises after rows have been built, the
\* type writes nothing (the file and its layers are as before), failed_types
\* grows by one, the three totals stay as they are, and the loop goes on to
\* the next type.
C2_RaiseDiscardsPartialRows ==
    [][(pc = "iter" /\ rows # <<>> /\ ev' = "iter_fail") =>
          /\ file_exists' = file_exists
          /\ file_layers' = file_layers
          /\ writes' = writes
          /\ failed_types' = failed_types + 1
          /\ total_features' = total_features
          /\ total_skipped_no_geom' = total_skipped_no_geom
          /\ total_skipped_bad_geom' = total_skipped_bad_geom
          /\ pc' = "loop"
          /\ idx' = idx + 1]_vars

\* the second type has raised with a row built, after the first type wrote
\* its layer
C2_Witness ==
    /\ ev = "iter_fail"
    /\ idx = 3
    /\ Len(rows) = 1
    /\ outcome[1].kind = "written"
    /\ Len(file_layers) = 1
    /\ failed_types = 1
    /\ total_features = 1

(***************************************************************************)
(* C3                                                                      *)
(***************************************************************************)
PerTypeFailures == {"setup_fail", "iter_fail", "build_fail", "write_fail", "fallback_fail"}

\* C3 as stated: once the catalog has been read, no failure of a single type
\* (query setup, iteration, building the table, writing the layer) stops the
\* run.
C3_NoPerTypeFailureStopsRun == ev \in PerTypeFailures => pc # "aborted"

\* C3 as amended: a failure of the query setup or of the iteration never
\* stops the run (the loop goes on to the next type), a TypeError of the
\* first write leads to the second write, and a summary is printed only
\* after every type with geometry was attempted; the run is stopped only by
\* a failure of the catalog call, of building the table, of the first write
\* other than a TypeError, or of the second write.
C3_OnlyBuildAndWriteFailuresStopRun ==
    /\ [](pc = "aborted" => ev \in {"catalog_fail", "build_fail", "write_fail", "fallback_fail"})
    /\ [](pc = "done" => Len(queried) = Len(objtypes) /\ Len(outcome) = Len(objtypes))
    /\ [][(pc \in {"setup", "iter"} /\ ev' \in {"setup_fail", "iter_fail"}) =>
             (pc' = "loop" /\ idx' = idx + 1)]_vars
    /\ [][(pc = "write" /\ ev' = "type_error") => pc' = "fallback"]_vars

\* the summary was reached after the setup of the first type and the
\* iteration of the second had failed
C3_Witness ==
    /\ pc = "done"
    /\ Len(outcome) = 2
    /\ outcome[1].kind = "setup_raised"
    /\ outcome[2].kind = "iter_raised"

(***************************************************************************)
(* C4                                                                      *)
(***************************************************************************)
\* C4: no write targets a layer name that an earlier write of the same run
\* targeted, whatever the catalog.
C4_LayerWrittenAtMostOnce ==
    \A i, j \in DOMAIN writes : i # j => writes[i] # writes[j]

(***************************************************************************)
(* C5                                                                      *)
(***************************************************************************)
RECURSIVE Ids(_)
Ids(os) == IF os = <<>> THEN <<>> ELSE <<Head(os).id>> \o Ids(Tail(os))
IsPrefix(a, b) == Len(a) <= Len(b) /\ SubSeq(b, 1, Len(a)) = a

TrueUnderEitherSpelling(o) ==
    o.harGeometri = PyBool(TRUE) \/ o.har_geometri = PyBool(TRUE)
TrueUnderFirstPresentSpelling(o) ==
    \/ o.harGeometri = PyBool(TRUE)
    \/ o.harGeometri \in {Absent, PyNone} /\ o.har_geometri = PyBool(TRUE)

\* C5 as stated: the types queried are, once each and in catalog order, the
\* entries with a true flag under harGeometri or under har_geometri.
C5_QueriesTrueUnderEitherSpelling ==
    pc # "idle" =>
        /\ IsPrefix(queried, Ids(SelectSeq(catalog, TrueUnderEitherSpelling)))
        /\ pc = "done" => queried = Ids(SelectSeq(catalog, TrueUnderEitherSpelling))

\* C5 as amended: the types queried are, once each and in catalog order, the
\* entries whose flag under harGeometri is true or, when harGeometri is
\* absent or null, whose flag under har_geometri is true.
C5_QueriesTrueUnderFirstPresentSpelling ==
    pc # "idle" =>
        /\ IsPrefix(queried, Ids(SelectSeq(catalog, TrueUnderFirstPresentSpelling)))
        /\ pc = "done" => queried = Ids(SelectSeq(catalog, TrueUnderFirstPresentSpelling))

\* a catalog of two, the first flagged under har_geometri only and the second
\* not flagged: the run ended having queried the first alone
C5_Witness ==
    /\ pc = "done"
    /\ Len(catalog) = 2
    /\ catalog[1].harGeometri = Absent /\ catalog[1].har_geometri = PyBool(TRUE)
    /\ catalog[2].harGeometri = Absent /\ catalog[2].har_geometri = Absent
    /\ queried = <<catalog[1].id>>

(***************************************************************************)
(* C6                                                                      *)
(***************************************************************************)
\* the run has ended on a catalog of one type whose query yielded the single
\* record {id: 1, geometri: {type: Point, coordinates: [10, 70]}} and raised
\* nothing
ScenarioOneRan ==
    /\ pc = "done"
    /\ Len(catalog) = 1
    /\ catalog[1].id = 10
    /\ catalog[1].harGeometri = PyBool(TRUE)
    /\ Len(outcome) = 1
    /\ outcome[1].kind \notin {"setup_raised", "iter_raised"}
    /\ yielded = 1 /\ fetched = 1
    /\ lastGeom = PointDict

SkredLayer(name) ==
    /\ file_exists
    /\ Len(file_layers) = 1
    /\ file_layers[1].name = name
    /\ Len(file_layers[1].rows) = 1
    /\ file_layers[1].rows[1].id = 1
    /\ file_layers[1].rows[1].geometry = Geom("Point", <<10, 70>>)
    /\ total_features = 1
    /\ total_skipped_no_geom = 0
    /\ total_skipped_bad_geom = 0
    /\ failed_types = 0

\* C6 as stated: with the type definition {id: 10, name: "Skred",
\* harGeometri: true} the file ends with a layer "skred" of one row with
\* geometry Point(10, 70), total written 1 and the other counters 0.
C6_ScenarioOneNameField ==
    (ScenarioOneRan /\ catalog[1].name = Chars(Skred) /\ catalog[1].navn = Absent) =>
        SkredLayer(<<"s", "k", "r", "e", "d">>)

\* C6 as amended: the same with the name under the field "navn", which is
\* the field the run reads; a definition that carries the name under "name"
\* only gets the layer "objtype_10".
C6_ScenarioOneNavnField ==
    /\ (ScenarioOneRan /\ catalog[1].navn = Chars(Skred)) =>
          SkredLayer(<<"s", "k", "r", "e", "d">>)
    /\ (ScenarioOneRan /\ catalog[1].navn = Absent) =>
          SkredLayer(<<"o", "b", "j", "t", "y", "p", "e", "_", "1", "0">>)

C6_Witness ==
    /\ ScenarioOneRan
    /\ catalog[1].navn = Chars(Skred)
    /\ file_layers[1].name = <<"s", "k", "r", "e", "d">>

(***************************************************************************)
(* C7                                                                      *)
(***************************************************************************)
Returns == call.fn = "parse_geometry" /\ call.ret # NotReturned
Geometries == {Geom("Point", <<10, 70>>), Geom("Point", <<5, 60>>)}

\* a value that is text-encoded geometry to try: a string that is not blank
IsText(v) == v.k = "str" /\ v.s \notin BlankTexts
\* step 2 applies and the construction succeeds
Structured(g) ==
    /\ g.k = "dict"
    /\ g.type.k = "str"
    /\ g.coordinates # Absent
    /\ g.type = PyStr("Point") /\ g.coordinates = PyList(<<10, 70>>)
\* well-known text parsed, a failure giving no geometry
ParsedText(t) ==
    CASE t = "POINT (10 70)" -> Geom("Point", <<10, 70>>)
      [] t = "POINT (5 60)" -> Geom("Point", <<5, 60>>)
      [] OTHER -> PyNone

\* the decision chain as stated: text under "wkt" or under "WKT" is parsed
ChainAsStated(g) ==
    IF g = PyNone THEN PyNone
    ELSE IF Structured(g) THEN Geom("Point", <<10, 70>>)
    ELSE IF g.k = "dict" /\ IsText(g.wkt) THEN ParsedText(g.wkt.s)
    ELSE IF g.k = "dict" /\ IsText(g.WKT) THEN ParsedText(g.WKT.s)
    ELSE IF g.k = "str" /\ g.s # "" THEN ParsedText(g.s)
    ELSE PyNone

\* the decision chain as amended: the value under "wkt" is the one looked at
\* unless it is absent, null or empty, and only then the value under "WKT"
ChainAsAmended(g) ==
    IF g = PyNone THEN PyNone
    ELSE IF Structured(g) THEN Geom("Point", <<10, 70>>)
    ELSE IF g.k = "dict"
    THEN LET looked == IF g.wkt \in {Absent, PyNone, PyStr("")} THEN g.WKT ELSE g.wkt
         IN  IF IsText(looked) THEN ParsedText(looked.s) ELSE PyNone
    ELSE IF g.k = "str" /\ g.s # "" THEN ParsedText(g.s)
    ELSE PyNone

\* C7 as stated: parse_geometry never raises and returns what the ordered
\* chain returns: no geometry for null; the structured geometry of a mapping
\* with a string type tag and coordinates, falling through to the text when
\* the construction fails; the text under "wkt" or under "WKT" parsed as
\* well-known text; a non-empty string parsed as well-known text; no geometry
\* for a failed parse and for anything else.
C7_ChainWithEitherTextKey ==
    Returns => (call.ret \in Geometries \cup {PyNone} /\ call.ret = ChainAsStated(call.geom))

\* C7 as amended: the same chain, where step 3 looks at the value under
\* "wkt" unless that is absent, null or empty and only then at the value
\* under "WKT"; the value looked at is parsed when it is a string that is not
\* blank, and gives no geometry otherwise (text under "WKT" is not tried when
\* "wkt" holds a blank string or a value that is not text).
C7_ChainWithFirstNonEmptyTextKey ==
    Returns => (call.ret \in Geometries \cup {PyNone} /\ call.ret = ChainAsAmended(call.geom))

\* a mapping whose structured construction fails (unknown type tag) and that
\* holds well-known text under "WKT" has given the geometry of the text
C7_Witness ==
    /\ Returns
    /\ call.geom = PyDict(PyStr("Bogus"), PyList(<<10, 70>>), Absent, PyStr("POINT (5 60)"))
    /\ call.ret = Geom("Point", <<5, 60>>)

(***************************************************************************)
(* C8                                                                      *)
(***************************************************************************)
OthersUnchangedByRecord ==
    UNCHANGED <<pc, idx, file_exists, file_layers, writes, total_features,
                total_skipped_no_geom, total_skipped_bad_geom, failed_types, outcome>>

\* C8 as stated: a record adds one to skipped_no_geom exactly when its
\* geometri field is absent or null, and one to skipped_bad_geom exactly when
\* the field is present and the normalizer gives no geometry; neither builds
\* a row or changes anything but fetched; a type without rows writes nothing.
C8_SkipsAbsentOrNull ==
    [][(pc = "iter" /\ ev' = "record") =>
          /\ fetched' = fetched + 1
          /\ (skipped_no_geom' = skipped_no_geom + 1) = (lastGeom' \in {Absent, PyNone})
          /\ (skipped_bad_geom' = skipped_bad_geom + 1)
                = (lastGeom' \notin {Absent, PyNone} /\ parse_geometry(Get(lastGeom')) = PyNone)
          /\ (skipped_no_geom' # skipped_no_geom \/ skipped_bad_geom' # skipped_bad_geom) =>
                (rows' = rows /\ OthersUnchangedByRecord)]_vars

\* the geometri values that count as no geometry: missing, null, or empty
EmptyValues == {Absent, PyNone, PyStr(""), EmptyDict, PyInt(0), PyList(<<>>), PyBool(FALSE)}

\* C8 as amended: a record adds one to skipped_no_geom exactly when its
\* geometri field is absent, null or an empty value (an empty string, an
\* empty mapping), and one to skipped_bad_geom exactly when the field holds
\* another value for which the normalizer gives no geometry; neither builds
\* a row or changes anything but fetched; a type without rows writes nothing.
C8_SkipsEmptyValues ==
    /\ [][(pc = "iter" /\ ev' = "record") =>
            /\ fetched' = fetched + 1
            /\ (skipped_no_geom' = skipped_no_geom + 1) = (lastGeom' \in EmptyValues)
            /\ (skipped_bad_geom' = skipped_bad_geom + 1)
                  = (lastGeom' \notin EmptyValues /\ parse_geometry(lastGeom') = PyNone)
            /\ skipped_no_geom' \in {skipped_no_geom, skipped_no_geom + 1}
            /\ skipped_bad_geom' \in {skipped_bad_geom, skipped_bad_geom + 1}
            /\ (skipped_no_geom' # skipped_no_geom \/ skipped_bad_geom' # skipped_bad_geom) =>
                  (rows' = rows /\ OthersUnchangedByRecord)]_vars
    /\ [][(pc = "iter" /\ rows = <<>> /\ pc' # "iter") =>
            (file_exists' = file_exists /\ file_layers' = file_layers /\ writes' = writes)]_vars

\* a type of two records, an empty string and an unparsable text, ended with
\* no row and no file
C8_Witness ==
    /\ ev = "zero"
    /\ fetched = 2
    /\ skipped_no_geom = 1
    /\ skipped_bad_geom = 1
    /\ lastGeom = PyStr("INVALID_WKT_@@@")
    /\ ~file_exists

(***************************************************************************)
(* C9                                                                      *)
(***************************************************************************)
RECURSIVE CountKind(_, _)
CountKind(os, kind) ==
    IF os = <<>> THEN 0
    ELSE (IF Head(os).kind = kind THEN 1 ELSE 0) + CountKind(Tail(os), kind)

\* C9: no file exists before the first type with rows is written; that write
\* creates it; every later type with rows is written as one more layer of
\* the same file, on either write path; so the file holds one layer for every
\* type that gave a row, and there is no file when no type gave one.
C9_OneMoreLayerPerWrittenType ==
    /\ file_exists = (CountKind(outcome, "written") > 0)
    /\ Len(file_layers) = CountKind(outcome, "written")
    /\ \A i \in DOMAIN file_layers : file_layers[i].name = writes[i]

\* what holds of the code: the same, for runs in which no two writes target
\* one layer name
C9_HoldsForDistinctLayerNames ==
    C4_LayerWrittenAtMostOnce => C9_OneMoreLayerPerWrittenType

(***************************************************************************)
(* C10                                                                     *)
(***************************************************************************)
Failed(o) == o.kind \in {"setup_raised", "iter_raised"}
RECURSIVE SumN(_)
SumN(os) == IF os = <<>> THEN 0
            ELSE (IF Head(os).kind = "written" THEN Head(os).n ELSE 0) + SumN(Tail(os))
RECURSIVE SumNoGeom(_)
SumNoGeom(os) == IF os = <<>> THEN 0
                 ELSE (IF Failed(Head(os)) THEN 0 ELSE Head(os).no_geom) + SumNoGeom(Tail(os))
RECURSIVE SumBadGeom(_)
SumBadGeom(os) == IF os = <<>> THEN 0
                  ELSE (IF Failed(Head(os)) THEN 0 ELSE Head(os).bad_geom) + SumBadGeom(Tail(os))

\* C10: during the iteration of a type fetched = rows built + skipped no
\* geometry + skipped bad geometry; at the summary every attempted type has
\* ended as failed, as without rows or as written, failed_types counts the
\* failed ones, total_features is the sum of the batches written, and each
\* skip total is the sum of that counter over the types that did not fail.
C10_CounterAccounting ==
    /\ pc = "iter" => fetched = Len(rows) + skipped_no_geom + skipped_bad_geom
    /\ pc = "done" =>
          /\ Len(outcome) = Len(objtypes)
          /\ \A i \in DOMAIN outcome :
                /\ outcome[i].id = objtypes[i].id
                /\ outcome[i].kind \in {"setup_raised", "iter_raised", "zero", "written"}
                /\ outcome[i].kind = "written" => outcome[i].n > 0
          /\ failed_types = CountKind(outcome, "setup_raised") + CountKind(outcome, "iter_raised")
          /\ failed_types + CountKind(outcome, "zero") + CountKind(outcome, "written")
                = Len(objtypes)
          /\ total_features = SumN(outcome)
          /\ total_skipped_no_geom = SumNoGeom(outcome)
          /\ total_skipped_bad_geom = SumBadGeom(outcome)

\* the summary after a type that failed with a record skipped and a type
\* that wrote one row
C10_Witness ==
    /\ pc = "done"
    /\ Len(outcome) = 2
    /\ outcome[1].kind = "iter_raised" /\ outcome[1].no_geom = 1
    /\ outcome[2].kind = "written"
    /\ total_skipped_no_geom = 0
    /\ total_features = 1

====
